---- MODULE Spec2Model ----
(***************************************************************************)
(* State-machine model of speedtest-cli (src/src/main.rs): main runs the   *)
(* download, upload, latency and jitter probes one after another, builds   *)
(* the SpeedTestResult, optionally exports it and writes the report.       *)
(*                                                                         *)
(* f64 values are modelled as exact rationals <<numerator, denominator>>;  *)
(* NaN is <<0, 0>>.  u32 byte counts are modelled in the mixed radix       *)
(* [mega, unit] = mega * 1_000_000 + unit, so that 2^32 is representable.  *)
(* The transport, the clock, the file system and the ClickHouse server are *)
(* the environment: each answer is a nondeterministic choice.              *)
(* `size * 1_000_000` is u32 arithmetic: it panics in a build with         *)
(* overflow checks and wraps in one without, so the build profile is an    *)
(* input.  Verbose logging, the progress bar, the start banner and the     *)
(* report's format change no control flow and are left out; building the   *)
(* HTTP client (line 87) is taken to succeed.                              *)
(***************************************************************************)
EXTENDS Integers, Sequences, FiniteSets, TLC

\* ------------------------------------------------------------------ bounds

\* Elapsed whole seconds the clock may report for a transfer: 1..MaxSecs.
MaxSecs == 2
\* Elapsed milliseconds of a latency request: 10, 20, ..., 10 * MaxLatencyStep.
MaxLatencyStep == 3

DownloadSizes == {100, 4295}
UploadSizes == {20, 4295}
TransferSecs == 1..MaxSecs
LatencyMs == {10 * k : k \in 1..MaxLatencyStep}
\* Elapsed milliseconds of a jitter request, in a whole run and in the
\* sampler studied on its own.
RunJitterMs == {100}
SamplerJitterMs == {100, 105}

\* ------------------------------------------------------- program constants

Million == 1000000
LatencyRequests == 3
num_samples == 10
F32MantissaBits == 24

\* ------------------------------------------------------------ f64 rationals

RECURSIVE Gcd(_, _)
Gcd(a, b) == IF b = 0 THEN a ELSE Gcd(b, a % b)

Abs(x) == IF x < 0 THEN 0 - x ELSE x

\* A binding of main not assigned yet.
Unset == <<0 - 1, 0 - 1>>
Zero == <<0, 1>>
NaN == <<0, 0>>

None == <<>>
Some(x) == <<x>>

\* n / d in f64: 0.0 / 0.0 is NaN.
Frac(n, d) ==
    IF d = 0 THEN NaN
    ELSE LET g == Gcd(Abs(n), Abs(d))
             s == IF d < 0 THEN 0 - 1 ELSE 1
         IN  <<(s * n) \div g, (s * d) \div g>>

RECURSIVE Pow2(_)
Pow2(k) == IF k = 0 THEN 1 ELSE 2 * Pow2(k - 1)

\* <<floor(n * 2^k / d), remainder>> by binary long division.
RECURSIVE ShiftDiv(_, _, _, _)
ShiftDiv(q, r, d, k) ==
    IF k = 0 THEN <<q, r>>
    ELSE ShiftDiv(2 * q + ((2 * r) \div d), (2 * r) % d, d, k - 1)

\* The number of binary places k >= 0 for which floor((n / d) * 2^k) fills
\* the 24-bit significand of an f32.
RECURSIVE F32Places(_, _, _)
F32Places(n, d, k) ==
    IF ShiftDiv(n \div d, n % d, d, k)[1] >= Pow2(F32MantissaBits - 1)
    THEN k ELSE F32Places(n, d, k + 1)

\* `x as f32` of a non-negative f64 below 2^24: round to nearest, ties to
\* even, on a 24-bit significand.
AsF32(x) ==
    IF x = NaN \/ x[1] = 0 THEN x
    ELSE LET n == x[1]
             d == x[2]
             k == F32Places(n, d, 0)
             qr == ShiftDiv(n \div d, n % d, d, k)
             up == \/ 2 * qr[2] > d
                   \/ (2 * qr[2] = d /\ qr[1] % 2 = 1)
             m == IF up THEN qr[1] + 1 ELSE qr[1]
         IN  Frac(m, Pow2(k))

\* ------------------------------------------------------- u32 byte counts

Bytes(m, u) == [mega |-> m, unit |-> u]
U32Modulus == Bytes(4294, 967296)

BytesLe(a, b) == a.mega < b.mega \/ (a.mega = b.mega /\ a.unit <= b.unit)

\* k * 2^32
ModulusTimes(k) ==
    Bytes(U32Modulus.mega * k + ((U32Modulus.unit * k) \div Million),
          (U32Modulus.unit * k) % Million)

BytesMinus(a, b) ==
    IF a.unit >= b.unit THEN Bytes(a.mega - b.mega, a.unit - b.unit)
    ELSE Bytes(a.mega - b.mega - 1, a.unit + Million - b.unit)

\* size * 1_000_000 exceeds u32::MAX.
MulOverflows(size) == BytesLe(U32Modulus, Bytes(size, 0))

\* size * 1_000_000 as wrapping u32 arithmetic computes it.
WrappingMulMillion(size) ==
    LET exact == Bytes(size, 0)
        k == CHOOSE j \in 0..(size \div U32Modulus.mega) :
                 /\ BytesLe(ModulusTimes(j), exact)
                 /\ ~BytesLe(ModulusTimes(j + 1), exact)
    IN  BytesMinus(exact, ModulusTimes(k))

\* ------------------------------------------------------------------- state

VARIABLES
    cli,              \* parsed arguments
    overflow_checks,  \* build profile: integer overflow panics (TRUE) or wraps
    pc,               \* position of main
    inflight,         \* requests awaiting the transport
    download_speed, upload_speed, ping, jitter,
    times, lat_i,     \* test_latency locals
    jitter_samples, jit_i,  \* test_jitter locals
    result,           \* the SpeedTestResult
    exported, output, \* ClickHouse export, report written to stdout or file
    panic,            \* where the process panicked
    requests,         \* history: probe of each request issued, in order
    dl_url_bytes, ul_body_len,  \* history: bytes asked for / posted
    dl_outcome, ul_outcome,     \* history: what the transport answered
    lat_seen,         \* history: elapsed ms of answered latency requests
    jit_seen,         \* history: elapsed ms of answered jitter requests
    sleeps,           \* history: 100 ms sleeps taken
    jit_divisor       \* history: divisor used at line 307

vars == <<cli, overflow_checks, pc, inflight, download_speed, upload_speed,
          ping, jitter, times, lat_i, jitter_samples, jit_i, result,
          exported, output, panic, requests, dl_url_bytes, ul_body_len,
          dl_outcome, ul_outcome, lat_seen, jit_seen, sleeps, jit_divisor>>

Cli ==
    [download_size : DownloadSizes, upload_size : UploadSizes,
     output : {"stdout", "file"}, clickhouse : BOOLEAN]

Init ==
    /\ cli \in Cli
    /\ overflow_checks \in BOOLEAN
    /\ pc = "download"
    /\ inflight = {}
    /\ download_speed = Unset /\ upload_speed = Unset
    /\ ping = Unset /\ jitter = Unset
    /\ times = <<>> /\ lat_i = 0
    /\ jitter_samples = <<>> /\ jit_i = 0
    /\ result = None
    /\ exported = "no" /\ output = "none"
    /\ panic = "none"
    /\ requests = <<>>
    /\ dl_url_bytes = None /\ ul_body_len = None
    /\ dl_outcome = "none" /\ ul_outcome = "none"
    /\ lat_seen = <<>>
    /\ jit_seen = <<>>
    /\ sleeps = 0
    /\ jit_divisor = None

Request(probe, method) == [probe |-> probe, method |-> method]

\* A panic unwinds main: nothing after it runs.
Panic(where) ==
    /\ pc' = "panicked"
    /\ panic' = where
    /\ inflight' = {}

\* ---------------------------------------------------------- test_download

\* bits / duration / 1_000_000.0
DownloadMbps(len, secs) ==
    Frac((len.mega * Million + len.unit) * 8, secs * Million)

\* size * 1_000_000 overflows u32 in a build with overflow checks.
TestDownloadOverflow ==
    /\ pc = "download"
    /\ MulOverflows(cli.download_size) /\ overflow_checks
    /\ Panic("download_size_overflow")
    /\ UNCHANGED <<cli, overflow_checks, download_speed, upload_speed, ping,
                   jitter, times, lat_i, jitter_samples, jit_i, result,
                   exported, output, requests, dl_url_bytes, ul_body_len,
                   dl_outcome, ul_outcome, lat_seen, jit_seen, sleeps,
                   jit_divisor>>

\* Variant: the upload is started together with the download.
TestDownload_Concurrent ==
    /\ pc = "download"
    /\ ~(MulOverflows(cli.download_size) /\ overflow_checks)
    /\ dl_url_bytes' = Some(WrappingMulMillion(cli.download_size))
    /\ requests' = requests \o <<"download", "upload">>
    /\ inflight' = {Request("download", "GET"), Request("upload", "POST")}
    /\ pc' = "dl_send"
    /\ UNCHANGED <<cli, overflow_checks, download_speed, upload_speed, ping,
                   jitter, times, lat_i, jitter_samples, jit_i, result,
                   exported, output, panic, ul_body_len, dl_outcome,
                   ul_outcome, lat_seen, jit_seen, sleeps, jit_divisor>>

TestDownload ==
    /\ pc = "download"
    /\ ~(MulOverflows(cli.download_size) /\ overflow_checks)
    /\ dl_url_bytes' = Some(WrappingMulMillion(cli.download_size))
    /\ requests' = Append(requests, "download")
    /\ inflight' = {Request("download", "GET")}
    /\ pc' = "dl_send"
    /\ UNCHANGED <<cli, overflow_checks, download_speed, upload_speed, ping,
                   jitter, times, lat_i, jitter_samples, jit_i, result,
                   exported, output, panic, ul_body_len, dl_outcome,
                   ul_outcome, lat_seen, jit_seen, sleeps, jit_divisor>>

DownloadSendErr ==
    /\ pc = "dl_send"
    /\ inflight' = {}
    /\ download_speed' = Zero
    /\ dl_outcome' = "send_err"
    /\ pc' = "upload"
    /\ UNCHANGED <<cli, overflow_checks, upload_speed, ping, jitter, times,
                   lat_i, jitter_samples, jit_i, result, exported, output,
                   panic, requests, dl_url_bytes, ul_body_len, ul_outcome,
                   lat_seen, jit_seen, sleeps, jit_divisor>>

DownloadSendOk ==
    /\ pc = "dl_send"
    /\ pc' = "dl_bytes"
    /\ UNCHANGED <<cli, overflow_checks, inflight, download_speed,
                   upload_speed, ping, jitter, times, lat_i, jitter_samples,
                   jit_i, result, exported, output, panic, requests,
                   dl_url_bytes, ul_body_len, dl_outcome, ul_outcome,
                   lat_seen, jit_seen, sleeps, jit_divisor>>

\* Variant: a failed body read sends the request again.
DownloadBytesErr_Retry ==
    /\ pc = "dl_bytes"
    /\ requests' = Append(requests, "download")
    /\ dl_outcome' = "read_err"
    /\ pc' = "dl_send"
    /\ UNCHANGED <<cli, overflow_checks, inflight, download_speed,
                   upload_speed, ping, jitter, times, lat_i, jitter_samples,
                   jit_i, result, exported, output, panic, dl_url_bytes,
                   ul_body_len, ul_outcome, lat_seen, jit_seen, sleeps,
                   jit_divisor>>

DownloadBytesErr ==
    /\ pc = "dl_bytes"
    /\ inflight' = {}
    /\ download_speed' = Zero
    /\ dl_outcome' = "read_err"
    /\ pc' = "upload"
    /\ UNCHANGED <<cli, overflow_checks, upload_speed, ping, jitter, times,
                   lat_i, jitter_samples, jit_i, result, exported, output,
                   panic, requests, dl_url_bytes, ul_body_len, ul_outcome,
                   lat_seen, jit_seen, sleeps, jit_divisor>>

\* The body arrives: all the bytes asked for, or an empty body.
DownloadBytesOk ==
    /\ pc = "dl_bytes"
    /\ \E len \in {dl_url_bytes[1], Bytes(0, 0)}, secs \in TransferSecs :
           download_speed' = DownloadMbps(len, secs)
    /\ inflight' = {}
    /\ dl_outcome' = "ok"
    /\ pc' = "upload"
    /\ UNCHANGED <<cli, overflow_checks, upload_speed, ping, jitter, times,
                   lat_i, jitter_samples, jit_i, result, exported, output,
                   panic, requests, dl_url_bytes, ul_body_len, ul_outcome,
                   lat_seen, jit_seen, sleeps, jit_divisor>>

\* ------------------------------------------------------------ test_upload

\* (size as f64 * 8.0) / duration
UploadMbps(size, secs) == Frac(size * 8, secs)

TestUploadOverflow ==
    /\ pc = "upload"
    /\ MulOverflows(cli.upload_size) /\ overflow_checks
    /\ Panic("upload_size_overflow")
    /\ UNCHANGED <<cli, overflow_checks, download_speed, upload_speed, ping,
                   jitter, times, lat_i, jitter_samples, jit_i, result,
                   exported, output, requests, dl_url_bytes, ul_body_len,
                   dl_outcome, ul_outcome, lat_seen, jit_seen, sleeps,
                   jit_divisor>>

\* The body is vec![0u8; (size * 1_000_000) as usize].
TestUpload ==
    /\ pc = "upload"
    /\ ~(MulOverflows(cli.upload_size) /\ overflow_checks)
    /\ ul_body_len' = Some(WrappingMulMillion(cli.upload_size))
    /\ requests' = Append(requests, "upload")
    /\ inflight' = {Request("upload", "POST")}
    /\ pc' = "ul_send"
    /\ UNCHANGED <<cli, overflow_checks, download_speed, upload_speed, ping,
                   jitter, times, lat_i, jitter_samples, jit_i, result,
                   exported, output, panic, dl_url_bytes, dl_outcome,
                   ul_outcome, lat_seen, jit_seen, sleeps, jit_divisor>>

UploadErr ==
    /\ pc = "ul_send"
    /\ inflight' = {}
    /\ upload_speed' = Zero
    /\ ul_outcome' = "send_err"
    /\ pc' = "latency"
    /\ UNCHANGED <<cli, overflow_checks, download_speed, ping, jitter, times,
                   lat_i, jitter_samples, jit_i, result, exported, output,
                   panic, requests, dl_url_bytes, ul_body_len, dl_outcome,
                   lat_seen, jit_seen, sleeps, jit_divisor>>

UploadOk ==
    /\ pc = "ul_send"
    /\ \E secs \in TransferSecs :
           upload_speed' = UploadMbps(cli.upload_size, secs)
    /\ inflight' = {}
    /\ ul_outcome' = "ok"
    /\ pc' = "latency"
    /\ UNCHANGED <<cli, overflow_checks, download_speed, ping, jitter, times,
                   lat_i, jitter_samples, jit_i, result, exported, output,
                   panic, requests, dl_url_bytes, ul_body_len, dl_outcome,
                   lat_seen, jit_seen, sleeps, jit_divisor>>

\* ----------------------------------------------------------- test_latency

RECURSIVE SeqSum(_)
SeqSum(s) == IF s = <<>> THEN 0 ELSE s[1] + SeqSum(Tail(s))

\* Variant: the sum is divided by the number of requests.
LatencyMean_PerRequest(ts) ==
    IF ts = <<>> THEN Zero ELSE Frac(SeqSum(ts), LatencyRequests)

\* Lines 276-283: 0.0 when times is empty, else sum / len.
LatencyMean(ts) == IF ts = <<>> THEN Zero ELSE Frac(SeqSum(ts), Len(ts))

TestLatency ==
    /\ pc = "latency"
    /\ times' = <<>>
    /\ lat_i' = 0
    /\ pc' = "lat_loop"
    /\ UNCHANGED <<cli, overflow_checks, inflight, download_speed,
                   upload_speed, ping, jitter, jitter_samples, jit_i, result,
                   exported, output, panic, requests, dl_url_bytes,
                   ul_body_len, dl_outcome, ul_outcome, lat_seen, jit_seen,
                   sleeps, jit_divisor>>

LatencySend ==
    /\ pc = "lat_loop"
    /\ lat_i < LatencyRequests
    /\ requests' = Append(requests, "latency")
    /\ inflight' = {Request("latency", "GET")}
    /\ pc' = "lat_send"
    /\ UNCHANGED <<cli, overflow_checks, download_speed, upload_speed, ping,
                   jitter, times, lat_i, jitter_samples, jit_i, result,
                   exported, output, panic, dl_url_bytes, ul_body_len,
                   dl_outcome, ul_outcome, lat_seen, jit_seen, sleeps,
                   jit_divisor>>

LatencyOk ==
    /\ pc = "lat_send"
    /\ \E ms \in LatencyMs :
           /\ times' = Append(times, ms)
           /\ lat_seen' = Append(lat_seen, ms)
    /\ inflight' = {}
    /\ lat_i' = lat_i + 1
    /\ pc' = "lat_loop"
    /\ UNCHANGED <<cli, overflow_checks, download_speed, upload_speed, ping,
                   jitter, jitter_samples, jit_i, result, exported, output,
                   panic, requests, dl_url_bytes, ul_body_len, dl_outcome,
                   ul_outcome, jit_seen, sleeps, jit_divisor>>

LatencyErr ==
    /\ pc = "lat_send"
    /\ inflight' = {}
    /\ lat_i' = lat_i + 1
    /\ pc' = "lat_loop"
    /\ UNCHANGED <<cli, overflow_checks, download_speed, upload_speed, ping,
                   jitter, times, jitter_samples, jit_i, result, exported,
                   output, panic, requests, dl_url_bytes, ul_body_len,
                   dl_outcome, ul_outcome, lat_seen, jit_seen, sleeps,
                   jit_divisor>>

LatencyReturn ==
    /\ pc = "lat_loop"
    /\ lat_i = LatencyRequests
    /\ ping' = LatencyMean(times)
    /\ times' = <<>>
    /\ pc' = "jitter"
    /\ UNCHANGED <<cli, overflow_checks, inflight, download_speed,
                   upload_speed, jitter, lat_i, jitter_samples, jit_i,
                   result, exported, output, panic, requests, dl_url_bytes,
                   ul_body_len, dl_outcome, ul_outcome, lat_seen, jit_seen,
                   sleeps, jit_divisor>>

\* ------------------------------------------------------------ test_jitter

\* Variant: the differences are summed with their sign.
RECURSIVE TotalJitter_Signed(_)
TotalJitter_Signed(s) ==
    IF Len(s) < 2 THEN 0
    ELSE TotalJitter_Signed(SubSeq(s, 1, Len(s) - 1))
         + (s[Len(s)] - s[Len(s) - 1])

\* Lines 303-306: the sum of |samples[i] - samples[i - 1]| for i in 1..len.
RECURSIVE TotalJitter(_)
TotalJitter(s) ==
    IF Len(s) < 2 THEN 0
    ELSE TotalJitter(SubSeq(s, 1, Len(s) - 1))
         + Abs(s[Len(s)] - s[Len(s) - 1])

\* jitter_samples.len() - 1 in usize; with wrapping arithmetic 0 - 1 is
\* usize::MAX (all ones), written -1 here.
JitterDivisor(s) == Len(s) - 1

\* Line 307: total_jitter / (len - 1) as f64; 0.0 / usize::MAX is 0.0 and
\* 0.0 / 0.0 is NaN.
AvgJitter(s) ==
    IF JitterDivisor(s) < 0 THEN Zero
    ELSE Frac(TotalJitter(s), JitterDivisor(s))

TestJitter ==
    /\ pc = "jitter"
    /\ jitter_samples' = <<>>
    /\ jit_i' = 0
    /\ pc' = "jit_loop"
    /\ UNCHANGED <<cli, overflow_checks, inflight, download_speed,
                   upload_speed, ping, jitter, times, lat_i, result,
                   exported, output, panic, requests, dl_url_bytes,
                   ul_body_len, dl_outcome, ul_outcome, lat_seen, jit_seen,
                   sleeps, jit_divisor>>

JitterSend ==
    /\ pc = "jit_loop"
    /\ jit_i < num_samples
    /\ requests' = Append(requests, "jitter")
    /\ inflight' = {Request("jitter", "GET")}
    /\ pc' = "jit_send"
    /\ UNCHANGED <<cli, overflow_checks, download_speed, upload_speed, ping,
                   jitter, times, lat_i, jitter_samples, jit_i, result,
                   exported, output, panic, dl_url_bytes, ul_body_len,
                   dl_outcome, ul_outcome, lat_seen, jit_seen, sleeps,
                   jit_divisor>>

\* Variant: no sleep follows the last sample.
JitterOk_NoTrailingSleep(ms) ==
    /\ pc = "jit_send"
    /\ jitter_samples' = Append(jitter_samples, ms)
    /\ jit_seen' = Append(jit_seen, ms)
    /\ inflight' = {}
    /\ IF jit_i + 1 = num_samples
       THEN pc' = "jit_loop" /\ jit_i' = jit_i + 1
       ELSE pc' = "jit_sleep" /\ jit_i' = jit_i
    /\ UNCHANGED <<cli, overflow_checks, download_speed, upload_speed, ping,
                   jitter, times, lat_i, result, exported, output, panic,
                   requests, dl_url_bytes, ul_body_len, dl_outcome,
                   ul_outcome, lat_seen, sleeps, jit_divisor>>

\* The response arrives after ms milliseconds.
JitterOk(ms) ==
    /\ pc = "jit_send"
    /\ jitter_samples' = Append(jitter_samples, ms)
    /\ jit_seen' = Append(jit_seen, ms)
    /\ inflight' = {}
    /\ pc' = "jit_sleep"
    /\ UNCHANGED <<cli, overflow_checks, download_speed, upload_speed, ping,
                   jitter, times, lat_i, jit_i, result, exported, output,
                   panic, requests, dl_url_bytes, ul_body_len, dl_outcome,
                   ul_outcome, lat_seen, sleeps, jit_divisor>>

\* Variant: a failed sample is skipped and the loop goes on.
JitterErr_SkipSample ==
    /\ pc = "jit_send"
    /\ inflight' = {}
    /\ pc' = "jit_sleep"
    /\ UNCHANGED <<cli, overflow_checks, download_speed, upload_speed, ping,
                   jitter, times, lat_i, jitter_samples, jit_i, result,
                   exported, output, panic, requests, dl_url_bytes,
                   ul_body_len, dl_outcome, ul_outcome, lat_seen, jit_seen,
                   sleeps, jit_divisor>>

\* Variant: a failed sample makes test_jitter return 0.0, as the other
\* probes do.
JitterErr_ReturnZero ==
    /\ pc = "jit_send"
    /\ inflight' = {}
    /\ jitter' = Zero
    /\ jitter_samples' = <<>>
    /\ pc' = "result"
    /\ UNCHANGED <<cli, overflow_checks, download_speed, upload_speed, ping,
                   times, lat_i, jit_i, result, exported, output, panic,
                   requests, dl_url_bytes, ul_body_len, dl_outcome,
                   ul_outcome, lat_seen, jit_seen, sleeps, jit_divisor>>

\* send() returned Err: unwrap() panics.
JitterErr ==
    /\ pc = "jit_send"
    /\ Panic("jitter_unwrap")
    /\ UNCHANGED <<cli, overflow_checks, download_speed, upload_speed, ping,
                   jitter, times, lat_i, jitter_samples, jit_i, result,
                   exported, output, requests, dl_url_bytes, ul_body_len,
                   dl_outcome, ul_outcome, lat_seen, jit_seen, sleeps,
                   jit_divisor>>

JitterSleep ==
    /\ pc = "jit_sleep"
    /\ sleeps' = sleeps + 1
    /\ jit_i' = jit_i + 1
    /\ pc' = "jit_loop"
    /\ UNCHANGED <<cli, overflow_checks, inflight, download_speed,
                   upload_speed, ping, jitter, times, lat_i, jitter_samples,
                   result, exported, output, panic, requests, dl_url_bytes,
                   ul_body_len, dl_outcome, ul_outcome, lat_seen, jit_seen,
                   jit_divisor>>

JitterReturn ==
    /\ pc = "jit_loop"
    /\ jit_i = num_samples
    /\ IF JitterDivisor(jitter_samples) < 0 /\ overflow_checks
       THEN /\ Panic("jitter_len_underflow")
            /\ UNCHANGED <<jitter, jit_divisor, jitter_samples>>
       ELSE /\ jitter' = AvgJitter(jitter_samples)
            /\ jit_divisor' = Some(JitterDivisor(jitter_samples))
            /\ jitter_samples' = <<>>
            /\ pc' = "result"
            /\ UNCHANGED <<panic, inflight>>
    /\ UNCHANGED <<cli, overflow_checks, download_speed, upload_speed, ping,
                   times, lat_i, jit_i, result, exported, output, requests,
                   dl_url_bytes, ul_body_len, dl_outcome, ul_outcome,
                   lat_seen, jit_seen, sleeps>>

\* ----------------------------------------------------- main, lines 113-153

BuildResult ==
    /\ pc = "result"
    /\ result' = Some([timestamp |-> "now",
                       download_speed_mbps |-> AsF32(download_speed),
                       upload_speed_mbps |-> AsF32(upload_speed),
                       ping_ms |-> AsF32(ping),
                       jitter_ms |-> AsF32(jitter),
                       server_id |-> "cloudflare"])
    /\ pc' = IF cli.clickhouse THEN "export" ELSE "output"
    /\ UNCHANGED <<cli, overflow_checks, inflight, download_speed,
                   upload_speed, ping, jitter, times, lat_i, jitter_samples,
                   jit_i, exported, output, panic, requests, dl_url_bytes,
                   ul_body_len, dl_outcome, ul_outcome, lat_seen, jit_seen,
                   sleeps, jit_divisor>>

\* export_to_clickhouse returns Ok or Err; main goes on either way.
Export ==
    /\ pc = "export"
    /\ exported' \in {"ok", "failed"}
    /\ pc' = "output"
    /\ UNCHANGED <<cli, overflow_checks, inflight, download_speed,
                   upload_speed, ping, jitter, times, lat_i, jitter_samples,
                   jit_i, result, output, panic, requests, dl_url_bytes,
                   ul_body_len, dl_outcome, ul_outcome, lat_seen, jit_seen,
                   sleeps, jit_divisor>>

PrintReport ==
    /\ pc = "output"
    /\ cli.output = "stdout"
    /\ output' = "printed"
    /\ pc' = "done"
    /\ UNCHANGED <<cli, overflow_checks, inflight, download_speed,
                   upload_speed, ping, jitter, times, lat_i, jitter_samples,
                   jit_i, result, exported, panic, requests, dl_url_bytes,
                   ul_body_len, dl_outcome, ul_outcome, lat_seen, jit_seen,
                   sleeps, jit_divisor>>

WriteReport ==
    /\ pc = "output"
    /\ cli.output = "file"
    /\ output' = "written"
    /\ pc' = "done"
    /\ UNCHANGED <<cli, overflow_checks, inflight, download_speed,
                   upload_speed, ping, jitter, times, lat_i, jitter_samples,
                   jit_i, result, exported, panic, requests, dl_url_bytes,
                   ul_body_len, dl_outcome, ul_outcome, lat_seen, jit_seen,
                   sleeps, jit_divisor>>

\* File::create or write_all returned Err: expect() panics.
WriteReportErr ==
    /\ pc = "output"
    /\ cli.output = "file"
    /\ Panic("output_file")
    /\ UNCHANGED <<cli, overflow_checks, download_speed, upload_speed, ping,
                   jitter, times, lat_i, jitter_samples, jit_i, result,
                   exported, output, requests, dl_url_bytes, ul_body_len,
                   dl_outcome, ul_outcome, lat_seen, jit_seen, sleeps,
                   jit_divisor>>

\* ---------------------------------------------------------- specifications

NextDownload ==
    \/ TestDownloadOverflow \/ TestDownload
    \/ DownloadSendErr \/ DownloadSendOk
    \/ DownloadBytesErr \/ DownloadBytesOk

NextUpload == TestUploadOverflow \/ TestUpload \/ UploadErr \/ UploadOk

NextLatency ==
    TestLatency \/ LatencySend \/ LatencyOk \/ LatencyErr \/ LatencyReturn

NextJitter(msSet) ==
    \/ TestJitter \/ JitterSend
    \/ \E ms \in msSet : JitterOk(ms)
    \/ JitterErr \/ JitterSleep \/ JitterReturn

NextReport ==
    BuildResult \/ Export \/ PrintReport \/ WriteReport \/ WriteReportErr

\* A whole run of main.
Next ==
    \/ NextDownload \/ NextUpload \/ NextLatency
    \/ NextJitter(RunJitterMs) \/ NextReport

Spec == Init /\ [][Next]_vars

\* The sampler on its own: main has reached the call of test_jitter after a
\* run in which every earlier request succeeded.
InitJitter ==
    /\ cli = [download_size |-> 100, upload_size |-> 20,
              output |-> "stdout", clickhouse |-> FALSE]
    /\ overflow_checks \in BOOLEAN
    /\ pc = "jitter"
    /\ inflight = {}
    /\ download_speed = DownloadMbps(Bytes(100, 0), 1)
    /\ upload_speed = UploadMbps(20, 1)
    /\ ping = LatencyMean(<<10, 20, 30>>)
    /\ jitter = Unset
    /\ times = <<>> /\ lat_i = LatencyRequests
    /\ jitter_samples = <<>> /\ jit_i = 0
    /\ result = None
    /\ exported = "no" /\ output = "none"
    /\ panic = "none"
    /\ requests = <<"download", "upload", "latency", "latency", "latency">>
    /\ dl_url_bytes = Some(Bytes(100, 0)) /\ ul_body_len = Some(Bytes(20, 0))
    /\ dl_outcome = "ok" /\ ul_outcome = "ok"
    /\ lat_seen = <<10, 20, 30>>
    /\ jit_seen = <<>>
    /\ sleeps = 0
    /\ jit_divisor = None

SpecJitter == InitJitter /\ [][NextJitter(SamplerJitterMs)]_vars

\* ------------------------------------------------------------- properties

Count(s, x) == Cardinality({k \in 1..Len(s) : s[k] = x})

Rank(probe) ==
    CASE probe = "download" -> 1
      [] probe = "upload" -> 2
      [] probe = "latency" -> 3
      [] probe = "jitter" -> 4

\* Transport errors met by the jitter sampler so far.
JitterErrors ==
    Count(requests, "jitter") - Len(jit_seen)
    - Cardinality({r \in inflight : r.probe = "jitter"})

\* The sum of the elements of s, by index.
RECURSIVE SumTo(_, _)
SumTo(s, n) == IF n = 0 THEN 0 ELSE SumTo(s, n - 1) + s[n]

Dist(a, b) == IF a < b THEN b - a ELSE a - b

\* The sum of |s[i] - s[i-1]| for i = 2..n (1-based).
RECURSIVE SumAbsDiffTo(_, _)
SumAbsDiffTo(s, n) ==
    IF n < 2 THEN 0 ELSE SumAbsDiffTo(s, n - 1) + Dist(s[n], s[n - 1])

\* Whether the f64 x equals the quotient num / den (den > 0).
IsQuotient(x, num, den) == x[2] > 0 /\ x[1] * den = x[2] * num

Populated(r) ==
    /\ DOMAIN r = {"timestamp", "download_speed_mbps", "upload_speed_mbps",
                   "ping_ms", "jitter_ms", "server_id"}
    /\ \A f \in {"download_speed_mbps", "upload_speed_mbps", "ping_ms",
                 "jitter_ms"} : r[f] # Unset /\ r[f] # NaN

\* C1: whatever the transport answers to the download, upload, latency and
\* jitter requests, no failed request aborts the run, and the result record,
\* once built, has every field populated with 0.0 for every failed probe.
C1_OrchestratorNeverFails ==
    /\ panic # "jitter_unwrap"
    /\ JitterErrors = 0 \/ pc # "panicked"
    /\ result # None =>
           /\ Populated(result[1])
           /\ dl_outcome \in {"send_err", "read_err"} =>
                  result[1].download_speed_mbps = Zero
           /\ ul_outcome = "send_err" => result[1].upload_speed_mbps = Zero
           /\ lat_seen = <<>> => result[1].ping_ms = Zero

\* C2: the probes run strictly one after another in the order download,
\* upload, latency, jitter: requests are issued in that order, a probe's
\* request is in flight only after every earlier probe has returned and
\* before any later probe has, and at most one request is in flight.
C2_ProbesSequential ==
    /\ Cardinality(inflight) <= 1
    /\ \A k \in 1..(Len(requests) - 1) :
           Rank(requests[k]) <= Rank(requests[k + 1])
    /\ Count(requests, "upload") > 0 => download_speed # Unset
    /\ Count(requests, "latency") > 0 => upload_speed # Unset
    /\ Count(requests, "jitter") > 0 => ping # Unset
    /\ \A r \in inflight :
           /\ r.probe = requests[Len(requests)]
           /\ r.probe = "download" =>
                  download_speed = Unset /\ upload_speed = Unset
                  /\ ping = Unset /\ jitter = Unset
           /\ r.probe = "upload" =>
                  upload_speed = Unset /\ ping = Unset /\ jitter = Unset
           /\ r.probe = "latency" => ping = Unset /\ jitter = Unset
           /\ r.probe = "jitter" => jitter = Unset

C2_LastJitterRequestInFlight ==
    /\ inflight = {Request("jitter", "GET")}
    /\ Count(requests, "jitter") = num_samples
    /\ requests[1] = "download" /\ requests[2] = "upload"
    /\ Count(requests, "latency") = LatencyRequests

\* C3: a transport error on any jitter sample is fatal: the failed sample is
\* the last request of the run, the process has panicked, no result record
\* is built, and no report is exported, printed or written to the file.
C3_JitterErrorFatal ==
    JitterErrors > 0 =>
        /\ JitterErrors = 1
        /\ pc = "panicked" /\ panic = "jitter_unwrap"
        /\ inflight = {}
        /\ requests[Len(requests)] = "jitter"
        /\ jitter = Unset
        /\ result = None
        /\ exported = "no"
        /\ output = "none"

C3_FifthSampleFails ==
    /\ panic = "jitter_unwrap"
    /\ Len(jit_seen) = 4
    /\ Count(requests, "jitter") = 5
    /\ cli.clickhouse /\ cli.output = "file"

\* C4: a transport error of the download (on send or while reading the
\* body) or of the upload is caught: the probe returns exactly 0.0, its
\* request was issued once and never again, and main has gone on to the
\* next probe.
C4_TransferErrorsCaught ==
    /\ dl_outcome \in {"send_err", "read_err"} =>
           /\ download_speed = Zero
           /\ Count(requests, "download") = 1
           /\ pc \notin {"download", "dl_send", "dl_bytes"}
           /\ panic # "download_size_overflow"
           /\ pc = "upload" \/ ul_body_len # None
              \/ panic = "upload_size_overflow"
    /\ ul_outcome = "send_err" =>
           /\ upload_speed = Zero
           /\ Count(requests, "upload") = 1
           /\ pc \notin {"download", "dl_send", "dl_bytes", "upload",
                         "ul_send", "panicked"}
              \/ panic \in {"jitter_unwrap", "output_file"}

C4_BothTransfersFailed ==
    /\ dl_outcome = "read_err"
    /\ ul_outcome = "send_err"
    /\ download_speed = Zero /\ upload_speed = Zero
    /\ inflight = {Request("latency", "GET")}

\* C5: once test_latency has returned, ping is the arithmetic mean of the
\* elapsed milliseconds of the requests that succeeded, and exactly 0.0 when
\* none did; samples 10, 20, 30 give 20.
C5_LatencyMean ==
    /\ ping # Unset =>
           IF lat_seen = <<>> THEN ping = Zero
           ELSE IsQuotient(ping, SumTo(lat_seen, Len(lat_seen)),
                           Len(lat_seen))
    /\ LatencyMean(<<10, 20, 30>>) = <<20, 1>>
    /\ LatencyMean(<<30>>) = <<30, 1>>

C5_ThreeSamples ==
    /\ lat_seen = <<10, 20, 30>>
    /\ ping = <<20, 1>>
    /\ Count(requests, "latency") = LatencyRequests

\* C6: when every jitter sample has succeeded, test_jitter returns the sum
\* of |sample[i] - sample[i-1]| over the samples in the order taken, divided
\* by their number less one; samples 100, 105, 95, 110 give 10.
C6_JitterMeanAbsDiff ==
    /\ jitter # Unset =>
           /\ Len(jit_seen) = num_samples
           /\ IsQuotient(jitter, SumAbsDiffTo(jit_seen, Len(jit_seen)),
                         Len(jit_seen) - 1)
    /\ AvgJitter(<<100, 105, 95, 110>>) = <<10, 1>>

C6_AlternatingSamples ==
    /\ jit_seen = <<100, 105, 100, 105, 100, 105, 100, 105, 100, 105>>
    /\ jitter = <<5, 1>>

\* C7: the jitter sampler never divides by zero: at the reduction step at
\* least 2 samples are available, the divisor used is nonzero and the result
\* is a number; with fewer than 2 samples the result would have to be 0.0.
C7_NoDivisionByZero ==
    /\ (pc = "jit_loop" /\ jit_i = num_samples) => Len(jitter_samples) >= 2
    /\ jit_divisor # None =>
           /\ jit_divisor[1] # 0
           /\ jitter # NaN
           /\ Len(jit_seen) < 2 => jitter = Zero

C7_DividedByNine ==
    /\ jit_divisor = Some(num_samples - 1)
    /\ jitter = Zero
    /\ pc = "result"

\* C8 as stated: no delay before the first request, one delay before each
\* later one, none after the last sample: N samples, N - 1 delays.
C8_NoDelayAfterLastSample ==
    /\ pc = "jit_send" => sleeps = Len(jit_seen)
    /\ jitter # Unset => sleeps = Len(jit_seen) - 1

\* C8 as amended: no delay before the first request, one delay after every
\* response, the last included: a request is issued after as many delays as
\* samples were taken before it, and N samples involve exactly N delays.
C8_DelayAfterEverySample ==
    /\ pc = "jit_send" => sleeps = Len(jit_seen) /\ sleeps = jit_i
    /\ pc = "jit_sleep" => sleeps = Len(jit_seen) - 1
    /\ pc = "jit_loop" => sleeps = Len(jit_seen)
    /\ jitter # Unset =>
           sleeps = num_samples /\ Len(jit_seen) = num_samples

C8_TenSamplesTenSleeps ==
    /\ jitter # Unset
    /\ Len(jit_seen) = num_samples
    /\ sleeps = num_samples

\* C9: the posted body has exactly upload_size * 1,000,000 bytes and the
\* download asks for exactly download_size * 1,000,000 bytes; the u32
\* multiplication neither wraps nor aborts the run.
C9_SizesExact ==
    /\ panic \notin {"download_size_overflow", "upload_size_overflow"}
    /\ dl_url_bytes # None => dl_url_bytes[1] = Bytes(cli.download_size, 0)
    /\ ul_body_len # None => ul_body_len[1] = Bytes(cli.upload_size, 0)

\* C10: a run issues a bounded number of requests and, when it has ended,
\* has issued exactly 1 download GET, 1 upload POST and 3 latency GETs and
\* at most 10 jitter GETs, and has ended by emitting the report or by
\* aborting in the jitter sampler.
C10_BoundedRequests ==
    /\ Count(requests, "download") <= 1
    /\ Count(requests, "upload") <= 1
    /\ Count(requests, "latency") <= LatencyRequests
    /\ Count(requests, "jitter") <= num_samples
    /\ pc \in {"done", "panicked"} =>
           /\ Count(requests, "download") = 1
           /\ Count(requests, "upload") = 1
           /\ Count(requests, "latency") = LatencyRequests
           /\ \/ pc = "done" /\ output \in {"printed", "written"}
              \/ panic = "jitter_unwrap"

====
